---------------------------- MODULE Spec2Model ----------------------------
(***************************************************************************)
(* State-machine model of unrardll's wrapper.cpp: one archive session      *)
(* driven by one host thread.  The four primitive operations               *)
(* (open_archive, close_archive, read_next_header, process_file), the      *)
(* capsule finalizer and the callback bridge unrar_callback are actions;   *)
(* the native UnRAR library and the caller's Python callback object are    *)
(* the environment, which chooses callback requests, callback outcomes     *)
(* and native return statuses.                                             *)
(***************************************************************************)
EXTENDS Integers, Sequences, FiniteSets, TLC

\* ------------------------------------------------------------------ bounds
\* Most data chunks the native library delivers during one process_file.
MaxChunks == 2
\* Longest chunk (bytes) the native library delivers in one notification.
MaxChunkLen == 2
\* Longest password text the password provider returns.
MaxPwLen == 2
\* Explicit close_archive calls made on one capsule.
MaxCloseCalls == 2
\* Bits of one half of a split size (32 in the source, scaled down).
HalfBits == 4

\* --------------------------------------------------------------- constants
NULL == "NULL"
Py_None == "Py_None"
CallbackObj == "callback"

\* PyGILState_STATE values (thread_state field, line 26).
PyGILState_LOCKED == "LOCKED"
PyGILState_UNLOCKED == "UNLOCKED"

\* Native status codes named in convert_rar_error's CASE list.
NamedCodes ==
    { "ERAR_SUCCESS", "ERAR_END_ARCHIVE", "ERAR_BAD_DATA", "ERAR_BAD_ARCHIVE",
      "ERAR_UNKNOWN_FORMAT", "ERAR_EOPEN", "ERAR_ECREATE", "ERAR_ECLOSE",
      "ERAR_EREAD", "ERAR_EWRITE", "ERAR_SMALL_BUF", "ERAR_UNKNOWN",
      "ERAR_MISSING_PASSWORD", "ERAR_EREFERENCE", "ERAR_BAD_PASSWORD" }

\* Every status the native library can hand back: the named ones, the
\* out-of-memory code and a code the switch does not know.
Codes == NamedCodes \cup { "ERAR_NO_MEMORY", "UNRECOGNIZED" }

\* The host error channel when no error is set.
NoErr == << "none", "" >>

\* Messages written into uo->callback_error by the bridge.
MsgVolume == "Could not find next part of a multi-part archive"
MsgBadPwLen == "Invalid password buffer length sent to callback"
MsgPwException == "An exception occurred in the password callback handler"
MsgPwNotUnicode == "The password callback handler did not return a unicode object"
MsgNoCallback == "No callback provided"
MsgBadLen == "Invalid buffer length sent to callback"
MsgWriteFailed == "Failed to write all bytes to output file"
MsgDataException == "An exception occurred in the password callback handler"
MsgCanceled == "Processing canceled by the callback"

\* ------------------------------------------------------------------- state
VARIABLES
    pc,        \* where the host thread is: idle, native, pycb, write
    op,        \* the primitive operation on the stack ("none" when idle)
    uo,        \* the UnrarOperation context (fields of the struct)
    ctx,       \* the context's storage: none, live, freed
    capsule,   \* the capsule: none, valid (name = NAME), invalid (name = NULL)
    finalized, \* the capsule object has been deallocated
    gil,       \* the thread's gilstate counter and whether it holds the lock
    cnt,       \* how often each resource was released
    pyErr,     \* the host error channel
    last,      \* the last finished primitive operation and its outcome
    nat,       \* the native library's side of the call in progress
    cbk,       \* the bridge invocation in progress / last finished
    pwBuf,     \* the native password buffer of the last wide request
    wr,        \* write_all's locals and the bytes the descriptor received
    hist       \* history of the session, read only by the properties

vars == << pc, op, uo, ctx, capsule, finalized, gil, cnt, pyErr, last, nat,
           cbk, pwBuf, wr, hist >>

\* ---------------------------------------------------------- GIL primitives
\* ALLOW_THREADS: uo->thread_state = PyGILState_Ensure().  Ensure takes the
\* lock if the thread does not hold it, counts the nesting and reports
\* whether the lock was already held.
ALLOW_THREADS(g) ==
    [ gil   |-> [ counter |-> g.counter + 1, held |-> TRUE ],
      state |-> IF g.held THEN PyGILState_LOCKED ELSE PyGILState_UNLOCKED ]

\* BLOCK_THREADS: PyGILState_Release(uo->thread_state).  Release undoes one
\* Ensure: the lock is given up only when the matching Ensure took it (or
\* the nesting count drops to zero).
BLOCK_THREADS(g, state) ==
    [ counter |-> g.counter - 1,
      held    |-> IF g.counter - 1 = 0 \/ state = PyGILState_UNLOCKED
                  THEN FALSE ELSE g.held ]

\* ------------------------------------------------------- error translation
\* Lines 46-75 with the ERAR_NO_MEMORY case left out of the switch.
convert_rar_error_NoMemoryAsGeneric(code) ==
    IF code \in NamedCodes THEN << "UNRARError", code >>
    ELSE << "UNRARError", "Unknown error" >>

convert_rar_error(code) ==
    IF code \in NamedCodes THEN << "UNRARError", code >>
    ELSE IF code = "ERAR_NO_MEMORY"
         THEN << "MemoryError", "Out of memory at line number: 67" >>
         ELSE << "UNRARError", "Unknown error" >>

\* ---------------------------------------------------------- header decoding
\* The native header stores each size as two halves of `unsigned int`.  The
\* 32 bits of a half are scaled down to HalfBits bits.
Half == 2 ^ HalfBits
MaxHalf == Half - 1

\* RARHeaderDataEx as zeroed at line 347, and the size fields the native
\* library may fill in: the pairs (0, 0), (1, 0), (0, max) and (1, max) for
\* the packed size, and (0, 0) and (1, 1) for the unpacked size.
NoHeader == [ PackSizeHigh |-> 0, PackSize |-> 0,
              UnpSizeHigh |-> 0, UnpSize |-> 0 ]

Headers ==
    { [ PackSizeHigh |-> h, PackSize |-> l, UnpSizeHigh |-> u, UnpSize |-> u ] :
        h \in { 0, 1 }, l \in { 0, MaxHalf }, u \in { 0, 1 } }

\* The size entries of the dict header_to_python builds.
NoValue == [ pack_size |-> 0, unpack_size |-> 0 ]

\* The builds the shift in combine tells apart.  "lp64": unsigned long is
\* twice as wide as unsigned int.  On the other two unsigned long is as wide
\* as unsigned int (Windows, 32-bit Linux) and the shift count equals the
\* width of the type, which is undefined: "count_masked" are processors that
\* take the count modulo the width (the value comes back unshifted),
\* "shifted_out" those that shift every bit out.
Builds == { "lp64", "count_masked", "shifted_out" }

RECURSIVE BitOr(_, _)
BitOr(a, b) ==
    IF a = 0 THEN b
    ELSE IF b = 0 THEN a
    ELSE ( IF a % 2 = 1 \/ b % 2 = 1 THEN 1 ELSE 0 )
         + 2 * BitOr(a \div 2, b \div 2)

\* combine (lines 303-307): unsigned long ans = h; return (ans << 32) | l.
combine(h, l, build) ==
    LET ans == h
        shifted == CASE build = "lp64"         -> ans * Half
                     [] build = "count_masked" -> ans
                     [] OTHER                  -> 0
    IN  BitOr(shifted, l)

\* header_to_python (lines 318-319): the two sizes, format "k".
header_to_python(fh, build) ==
    [ pack_size   |-> combine(fh.PackSizeHigh, fh.PackSize, build),
      unpack_size |-> combine(fh.UnpSizeHigh, fh.UnpSize, build) ]

\* The host error left by a failed PyDict_New, Py_BuildValue or
\* PyDict_SetItemString in header_to_python.
HeaderBuildError == << "MemoryError", "" >>

\* ------------------------------------------------------------ initial state
\* calloc(1, sizeof(UnrarOperation)): every field zero.
ZeroedOperation ==
    [ unrar_data         |-> NULL,
      callback_object    |-> NULL,
      thread_state       |-> PyGILState_LOCKED,
      has_callback_error |-> FALSE,
      callback_error     |-> "",
      output_fd          |-> 0 ]

NoCall == [ aborted |-> "no", chunksLeft |-> 0 ]

NoBridge == [ msg |-> "none", p2 |-> 0, ret |-> 0, excursion |-> FALSE,
              returned |-> FALSE, answer |-> "none", text |-> << >> ]

NoWrite == [ sz |-> 0, appended |-> << >>, written |-> 0, err |-> "0" ]

\* The fields of the context that change after open_archive.
Mutable(u) ==
    [ has_callback_error |-> u.has_callback_error,
      callback_error     |-> u.callback_error,
      output_fd          |-> u.output_fd ]

NoHist ==
    [ closeCalls  |-> 0,      \* explicit close_archive calls so far
      uaf         |-> FALSE,  \* the context was read or written after free
      closedCall  |-> FALSE,  \* a native call was made on a closed handle
      recorded    |-> FALSE,  \* the bridge recorded an error in this native call
      surfaced    |-> FALSE,  \* the captured message was raised, none recorded since
      stale       |-> FALSE,  \* ... and that was before the call in progress began
      falsy       |-> FALSE,  \* the data consumer returned a falsy value
      afterFalsy  |-> FALSE,  \* a chunk reached the consumer after a falsy answer
      before      |-> Mutable(ZeroedOperation)
                              \* the mutable fields when the native call began
    ]

\* No operation has returned since the one in progress began.
NoResult(closedAtStart) ==
    [ op |-> "none", ret |-> "none", exc |-> NoErr, status |-> "none",
      closedAtStart |-> closedAtStart, header |-> NoHeader,
      value |-> NoValue ]

Init ==
    /\ pc = "idle"
    /\ op = "none"
    /\ uo = ZeroedOperation
    /\ ctx = "none"
    /\ capsule = "none"
    /\ finalized = FALSE
    /\ gil = [ counter |-> 1, held |-> TRUE ]
    /\ cnt = [ closeNative |-> 0, decref |-> 0, free |-> 0 ]
    /\ pyErr = NoErr
    /\ last = NoResult(FALSE)
    /\ nat = NoCall
    /\ cbk = NoBridge
    /\ pwBuf = << >>
    /\ wr = NoWrite
    /\ hist = NoHist

\* An operation returned: what the caller sees, and the error channel.
Returned(o, ret, exc, status, closedAtStart) ==
    /\ last' = [ op |-> o, ret |-> ret, exc |-> exc, status |-> status,
                 closedAtStart |-> closedAtStart, header |-> NoHeader,
                 value |-> NoValue ]
    /\ pyErr' = exc

\* The native call is over: its stack (the password buffer, the bridge's and
\* write_all's locals) is gone.
CallEnds ==
    /\ nat' = NoCall
    /\ cbk' = NoBridge
    /\ pwBuf' = << >>
    /\ wr' = NoWrite

\* --------------------------------------------------------------- lifecycle
\* PyCapsule_IsValid(capsule, NAME): the capsule still carries the name.
PyCapsule_IsValid == capsule = "valid"

\* Releasing the context's resources: RARCloseArchive when asked,
\* Py_XDECREF(callback_object), free(uo).
Released(c, closeNative, callback) ==
    [ closeNative |-> c.closeNative + (IF closeNative THEN 1 ELSE 0),
      decref      |-> c.decref + (IF callback # NULL THEN 1 ELSE 0),
      free        |-> c.free + 1 ]

\* close_encapsulated_file with the invalidation of line 106 left out.
close_encapsulated_file_NoInvalidate ==
    IF capsule # "none"
    THEN /\ cnt' = Released(cnt, uo.unrar_data # NULL, uo.callback_object)
         /\ ctx' = "freed"
         /\ UNCHANGED capsule
    ELSE UNCHANGED << cnt, ctx, capsule >>

close_encapsulated_file ==
    IF PyCapsule_IsValid
    THEN /\ cnt' = Released(cnt, uo.unrar_data # NULL, uo.callback_object)
         /\ ctx' = "freed"
         /\ capsule' = "invalid"
    ELSE UNCHANGED << cnt, ctx, capsule >>

\* close_archive(capsule): tear down, return None.
CloseArchive ==
    /\ pc = "idle"
    /\ capsule # "none"
    /\ ~finalized
    /\ hist.closeCalls < MaxCloseCalls
    /\ close_encapsulated_file
    /\ Returned("close_archive", "None", NoErr, "none", capsule = "invalid")
    /\ hist' = [ hist EXCEPT !.closeCalls = @ + 1 ]
    /\ UNCHANGED << pc, op, uo, finalized, gil, nat, cbk, pwBuf, wr >>

\* The capsule is abandoned: its destructor is close_encapsulated_file.
Finalize ==
    /\ pc = "idle"
    /\ capsule # "none"
    /\ ~finalized
    /\ close_encapsulated_file
    /\ finalized' = TRUE
    /\ UNCHANGED << pc, op, uo, gil, pyErr, last, nat, cbk, pwBuf, wr, hist >>

\* from_capsule: PyCapsule_GetPointer(capsule, NAME) is NULL unless the
\* capsule's name is NAME.
from_capsule_IgnoreName == IF capsule # "none" THEN "uo" ELSE NULL

from_capsule == IF capsule = "valid" THEN "uo" ELSE NULL

NotACapsule == << "TypeError", "Not a valid RARFileHandle capsule" >>

\* ------------------------------------------------------------ open_archive
\* Lines 247-262: allocate the context, retain the callback, ALLOW_THREADS,
\* and enter RAROpenArchiveEx.  calloc may fail.
OpenBegin ==
    /\ pc = "idle"
    /\ ctx = "none"
    /\ last.op = "none"
    /\ \E callback \in { Py_None, CallbackObj }, allocOk \in BOOLEAN :
         IF ~allocOk
         THEN /\ Returned("open_archive", NULL,
                          << "MemoryError", "Out of memory at line number: 253" >>,
                          "none", FALSE)
              /\ UNCHANGED << pc, op, uo, ctx, gil, nat, cbk, hist >>
         ELSE /\ ctx' = "live"
              /\ uo' = [ ZeroedOperation EXCEPT
                           !.callback_object = callback,
                           !.thread_state = ALLOW_THREADS(gil).state ]
              /\ gil' = ALLOW_THREADS(gil).gil
              /\ pc' = "native"
              /\ op' = "open_archive"
              /\ nat' = NoCall
              /\ cbk' = NoBridge
              /\ UNCHANGED << pyErr, last, hist >>
    /\ UNCHANGED << capsule, finalized, cnt, pwBuf, wr >>

\* What RAROpenArchiveEx may hand back: a handle (or none) and an
\* open-result; a null handle never comes with success, and an aborted
\* callback never ends in success.
OpenOutcomes ==
    { o \in [ handle : { NULL, "H" },
               result : Codes ] :
        /\ o.handle = NULL => o.result # "ERAR_SUCCESS"
        /\ nat.aborted # "no" => o.result # "ERAR_SUCCESS" }

\* Lines 265-275 with the RARCloseArchive of line 271 left out.
OpenFailureCleanup_NoClose(handle) ==
    Released(cnt, FALSE, uo.callback_object)

\* Lines 265-275: the cleanup of the two failure branches.
OpenFailureCleanup(handle) ==
    Released(cnt, handle # NULL, uo.callback_object)

\* encapsulate (lines 111-118): PyCapsule_New, and the cleanup when it
\* fails.
encapsulate(capsuleOk) ==
    IF capsuleOk
    THEN /\ capsule' = "valid"
         /\ UNCHANGED << cnt, ctx >>
    ELSE /\ cnt' = Released(cnt, TRUE, uo.callback_object)
         /\ ctx' = "freed"
         /\ UNCHANGED capsule

\* Lines 263-282: RAROpenArchiveEx returns, BLOCK_THREADS, the failure
\* branches, encapsulate.
OpenReturn ==
    /\ pc = "native"
    /\ op = "open_archive"
    /\ \E o \in OpenOutcomes, capsuleOk \in BOOLEAN :
         /\ uo' = [ uo EXCEPT !.unrar_data = o.handle ]
         /\ IF o.handle = NULL \/ o.result # "ERAR_SUCCESS"
            THEN /\ cnt' = OpenFailureCleanup(o.handle)
                 /\ ctx' = "freed"
                 /\ UNCHANGED capsule
                 /\ Returned("open_archive", NULL, convert_rar_error(o.result),
                             o.result, FALSE)
            ELSE /\ encapsulate(capsuleOk)
                 /\ IF capsuleOk
                    THEN Returned("open_archive", "capsule", NoErr, o.result, FALSE)
                    ELSE Returned("open_archive", NULL,
                                  << "MemoryError", "PyCapsule_New" >>,
                                  o.result, FALSE)
    /\ gil' = BLOCK_THREADS(gil, uo.thread_state)
    /\ pc' = "idle"
    /\ op' = "none"
    /\ CallEnds
    /\ UNCHANGED << finalized, hist >>

\* ----------------------------------------------- entering a native call
\* History of a native call that starts: nothing recorded yet.
CallStarts(h) ==
    [ h EXCEPT !.uaf = @ \/ ctx # "live",
               !.closedCall = @ \/ ctx # "live",
               !.recorded = FALSE, !.stale = h.surfaced,
               !.falsy = FALSE, !.afterFalsy = FALSE,
               !.before = Mutable(uo) ]

\* What the native call in progress may return.  An abort signalled by the
\* bridge ends the call with the status UnRAR gives that abort: a cancelled
\* data delivery is RARX_USERBREAK, reported as ERAR_UNKNOWN; a refused
\* password is ERAR_MISSING_PASSWORD; a missing volume is ERAR_EOPEN.
\* Success needs every chunk delivered.
NativeStatuses ==
    CASE nat.aborted = "data" -> { "ERAR_UNKNOWN" }
      [] nat.aborted = "pw"   -> { "ERAR_MISSING_PASSWORD" }
      [] nat.aborted = "vol"  -> { "ERAR_EOPEN" }
      [] OTHER -> IF nat.chunksLeft > 0 THEN Codes \ { "ERAR_SUCCESS" }
                  ELSE Codes

\* -------------------------------------------------------- read_next_header
\* Lines 345-350: FROM_CAPSULE, ALLOW_THREADS, enter RARReadHeaderEx.
ReadBegin ==
    /\ pc = "idle"
    /\ capsule # "none"
    /\ ~finalized
    /\ IF from_capsule = NULL
       THEN /\ Returned("read_next_header", NULL, NotACapsule, "none",
                        capsule = "invalid")
            /\ UNCHANGED << pc, op, uo, gil, nat, cbk, hist >>
       ELSE /\ uo' = [ uo EXCEPT !.thread_state = ALLOW_THREADS(gil).state ]
            /\ gil' = ALLOW_THREADS(gil).gil
            /\ pc' = "native"
            /\ op' = "read_next_header"
            /\ nat' = NoCall
            /\ cbk' = NoBridge
            /\ hist' = CallStarts(hist)
            /\ last' = NoResult(capsule = "invalid")
            /\ pyErr' = NoErr
    /\ UNCHANGED << ctx, capsule, finalized, cnt, pwBuf, wr >>

\* Lines 350-364: RARReadHeaderEx returns, BLOCK_THREADS, the switch.
\* Lines 352-363 with the end-of-archive case left out of the switch.
ReadSwitch_EndIsError(retval) ==
    IF retval = "ERAR_SUCCESS" THEN "header" ELSE "default"

\* Lines 352-363: the switch on the status of RARReadHeaderEx.
ReadSwitch(retval) ==
    CASE retval = "ERAR_END_ARCHIVE" -> "None"
      [] retval = "ERAR_SUCCESS"     -> "header"
      [] OTHER                       -> "default"

\* Line 357: return header_to_python(&header, data), which hands back the
\* dict, or NULL with the host error set when building it failed.
ReturnedHeader(fh, build, built, closedAtStart) ==
    IF built
    THEN /\ last' = [ op |-> "read_next_header", ret |-> "header",
                      exc |-> NoErr, status |-> "ERAR_SUCCESS",
                      closedAtStart |-> closedAtStart, header |-> fh,
                      value |-> header_to_python(fh, build) ]
         /\ pyErr' = NoErr
    ELSE Returned("read_next_header", NULL, HeaderBuildError,
                  "ERAR_SUCCESS", closedAtStart)

ReadReturn ==
    /\ pc = "native"
    /\ op = "read_next_header"
    /\ \E retval \in NativeStatuses :
         CASE ReadSwitch(retval) = "None" ->
                Returned("read_next_header", "None", NoErr, retval,
                         last.closedAtStart)
           [] ReadSwitch(retval) = "header" ->
                \E fh \in Headers, build \in Builds, built \in BOOLEAN :
                    ReturnedHeader(fh, build, built, last.closedAtStart)
           [] OTHER ->
                Returned("read_next_header", NULL, convert_rar_error(retval),
                         retval, last.closedAtStart)
    /\ gil' = BLOCK_THREADS(gil, uo.thread_state)
    /\ pc' = "idle"
    /\ op' = "none"
    /\ CallEnds
    /\ UNCHANGED << uo, ctx, capsule, finalized, cnt, hist >>

\* ------------------------------------------------------------ process_file
\* Descriptors a caller passes: none (-1) or an open one.
OutputFds == { -1, 3 }

\* Lines 373-378: FROM_CAPSULE, store output_fd, ALLOW_THREADS, enter
\* RARProcessFile, which will deliver some number of chunks.
ProcessBegin ==
    /\ pc = "idle"
    /\ capsule # "none"
    /\ ~finalized
    /\ IF from_capsule = NULL
       THEN /\ Returned("process_file", NULL, NotACapsule, "none",
                        capsule = "invalid")
            /\ UNCHANGED << pc, op, uo, gil, nat, cbk, hist >>
       ELSE /\ \E output_fd \in OutputFds, chunks \in 0 .. MaxChunks :
                 /\ uo' = [ uo EXCEPT !.output_fd = output_fd,
                                      !.thread_state = ALLOW_THREADS(gil).state ]
                 /\ nat' = [ aborted |-> "no", chunksLeft |-> chunks ]
            /\ gil' = ALLOW_THREADS(gil).gil
            /\ pc' = "native"
            /\ op' = "process_file"
            /\ cbk' = NoBridge
            /\ hist' = CallStarts(hist)
            /\ last' = NoResult(capsule = "invalid")
            /\ pyErr' = NoErr
    /\ UNCHANGED << ctx, capsule, finalized, cnt, pwBuf, wr >>

\* Lines 381-383 with the captured message never surfaced.
ProcessFailure_Generic(retval) ==
    [ exc |-> convert_rar_error(retval), surfaced |-> FALSE, uo |-> uo ]

\* Lines 381-383: the error process_file raises for a non-success status,
\* and the context it leaves.
ProcessFailure(retval) ==
    IF retval = "ERAR_UNKNOWN" /\ uo.has_callback_error
    THEN [ exc |-> << "UNRARError", uo.callback_error >>, surfaced |-> TRUE,
           uo |-> uo ]
    ELSE [ exc |-> convert_rar_error(retval), surfaced |-> FALSE, uo |-> uo ]

\* Lines 378-384: RARProcessFile returns, BLOCK_THREADS, the result.
ProcessReturn ==
    /\ pc = "native"
    /\ op = "process_file"
    /\ \E retval \in NativeStatuses :
         IF retval = "ERAR_SUCCESS"
         THEN /\ Returned("process_file", "None", NoErr, retval,
                          last.closedAtStart)
              /\ UNCHANGED << uo, hist >>
         ELSE /\ Returned("process_file", NULL, ProcessFailure(retval).exc,
                          retval, last.closedAtStart)
              /\ uo' = ProcessFailure(retval).uo
              /\ hist' = [ hist EXCEPT !.surfaced =
                                         @ \/ ProcessFailure(retval).surfaced ]
    /\ gil' = BLOCK_THREADS(gil, uo.thread_state)
    /\ pc' = "idle"
    /\ op' = "none"
    /\ CallEnds
    /\ UNCHANGED << ctx, capsule, finalized, cnt >>

\* --------------------------------------------------------- callback bridge
\* The snprintf without the assignment to has_callback_error.
Record_MessageOnly(u, msg) ==
    [ u EXCEPT !.callback_error = msg ]

\* snprintf(uo->callback_error, ...); uo->has_callback_error = true.
Record(u, msg) ==
    [ u EXCEPT !.has_callback_error = TRUE, !.callback_error = msg ]

Recorded(h, msg) ==
    [ h EXCEPT !.recorded = TRUE, !.surfaced = FALSE, !.stale = FALSE ]

\* The bridge returns ret for a request of the given kind without having
\* called into Python: what the native library learns from it.
BridgeReturns(kind, p2, ret) ==
    /\ cbk' = [ msg |-> kind, p2 |-> p2, ret |-> ret, excursion |-> FALSE,
                returned |-> TRUE, answer |-> "none", text |-> << >> ]
    /\ nat' = [ aborted    |-> IF ret = -1 /\ kind # "legacy" THEN kind
                               ELSE nat.aborted,
                chunksLeft |-> IF kind = "data" THEN nat.chunksLeft - 1
                               ELSE nat.chunksLeft ]

\* UCM_CHANGEVOLUME / UCM_CHANGEVOLUMEW (lines 157-164).
BridgeChangeVolume ==
    /\ pc = "native"
    /\ nat.aborted = "no"
    /\ \E notify \in BOOLEAN :
         IF notify
         THEN /\ BridgeReturns("vol", 1, 0)
              /\ UNCHANGED << uo, hist >>
         ELSE /\ BridgeReturns("vol", 0, -1)
              /\ uo' = Record(uo, MsgVolume)
              /\ hist' = Recorded(hist, MsgVolume)
    /\ UNCHANGED << pc, op, ctx, capsule, finalized, gil, cnt, pyErr, last,
                    pwBuf, wr >>

\* UCM_NEEDPASSWORD (lines 165-166): not handled.  UnRAR sends it after the
\* wide request was refused.
BridgeNeedPassword ==
    /\ pc = "native"
    /\ nat.aborted = "pw"
    /\ cbk.msg # "legacy"
    /\ BridgeReturns("legacy", cbk.p2, -1)
    /\ UNCHANGED << pc, op, uo, ctx, capsule, finalized, gil, cnt, pyErr, last,
                    pwBuf, wr, hist >>

\* Buffer lengths the native library may pass with a wide password request.
PwBufLens == { -1, 0, 1, MaxPwLen + 1 }

\* UCM_NEEDPASSWORDW up to the call of _get_password (lines 167-175).
BridgeNeedPasswordW ==
    /\ pc = "native"
    /\ nat.aborted = "no"
    /\ \E p2 \in PwBufLens :
         IF p2 <= 0
         THEN /\ BridgeReturns("pw", p2, -1)
              /\ uo' = Record(uo, MsgBadPwLen)
              /\ hist' = Recorded(hist, MsgBadPwLen)
              /\ UNCHANGED << pc, gil >>
         ELSE IF uo.callback_object # NULL
         THEN /\ gil' = BLOCK_THREADS(gil, uo.thread_state)
              /\ pc' = "pycb"
              /\ cbk' = [ msg |-> "pw", p2 |-> p2, ret |-> -1,
                          excursion |-> TRUE, returned |-> FALSE,
                          answer |-> "none", text |-> << >> ]
              /\ UNCHANGED << uo, nat, hist >>
         ELSE /\ BridgeReturns("pw", p2, -1)
              /\ uo' = Record(uo, MsgNoCallback)
              /\ hist' = Recorded(hist, MsgNoCallback)
              /\ UNCHANGED << pc, gil >>
    /\ UNCHANGED << op, ctx, capsule, finalized, cnt, pyErr, last, pwBuf, wr >>

\* Texts a password provider may return.
RECURSIVE TextsUpTo(_)
TextsUpTo(n) ==
    IF n = 0 THEN { << >> }
    ELSE LET shorter == TextsUpTo(n - 1)
         IN  shorter \cup { Append(t, c) : t \in { x \in shorter : Len(x) = n - 1 },
                                           c \in { "a", "b" } }

\* What calling a method of the callback object can produce.  Py_None has
\* neither method, so the call raises AttributeError.
PwAnswers ==
    IF uo.callback_object = CallbackObj
    THEN { [ kind |-> "raise", text |-> << >> ],
           [ kind |-> "none", text |-> << >> ],
           [ kind |-> "nontext", text |-> << >> ] }
         \cup { [ kind |-> "text", text |-> t ] : t \in TextsUpTo(MaxPwLen) }
    ELSE { [ kind |-> "raise", text |-> << >> ] }

DataAnswers ==
    IF uo.callback_object = CallbackObj
    THEN { "raise", "truthy", "falsy", "badtruth" }
    ELSE { "raise" }

\* unicode_to_wchar (lines 77-86): -1 for a non-text object, otherwise
\* PyUnicode_AsWideChar, which copies at most sz characters and returns how
\* many it copied.
unicode_to_wchar(o, sz) ==
    IF o.kind # "text" THEN [ sz |-> -1, buf |-> << >> ]
    ELSE LET n == IF Len(o.text) < sz THEN Len(o.text) ELSE sz
         IN  [ sz |-> n, buf |-> SubSeq(o.text, 1, n) ]

\* Applying a bridge result r = [ret, msg, ...] to the context: msg is the
\* message the bridge recorded, "" when it recorded none.
AfterBridge(u, r) == IF r.msg = "" THEN u ELSE Record(u, r.msg)

HistAfterBridge(h, r) == IF r.msg = "" THEN h ELSE Recorded(h, r.msg)

\* Lines 175-189: what the bridge makes of _get_password's answer pw.
PasswordResult(pw, length) ==
    LET conv == unicode_to_wchar(pw, length)
    IN  CASE pw.kind = "raise" ->
               [ ret |-> -1, msg |-> MsgPwException, buf |-> pwBuf ]
          [] pw.kind = "none" ->
               [ ret |-> -1, msg |-> "", buf |-> pwBuf ]
          [] OTHER ->
               IF conv.sz > 0
               THEN [ ret |-> 0, msg |-> "", buf |-> conv.buf ]
               ELSE [ ret |-> -1, msg |-> MsgPwNotUnicode, buf |-> pwBuf ]

\* The rest of a bridge invocation that called into Python: ALLOW_THREADS,
\* PyErr_Clear, return ret to the native library.
ExcursionEnds(kind, r, answer, text) ==
    /\ uo' = [ AfterBridge(uo, r) EXCEPT !.thread_state = ALLOW_THREADS(gil).state ]
    /\ gil' = ALLOW_THREADS(gil).gil
    /\ pyErr' = NoErr
    /\ pc' = "native"
    /\ cbk' = [ cbk EXCEPT !.ret = r.ret, !.returned = TRUE, !.answer = answer,
                            !.text = text ]
    /\ nat' = [ aborted    |-> IF r.ret = -1 THEN kind ELSE nat.aborted,
                chunksLeft |-> IF kind = "data" THEN nat.chunksLeft - 1
                               ELSE nat.chunksLeft ]

\* The bridge's writes to uo after the call into Python (callback_error,
\* has_callback_error, thread_state) land in freed memory when the context
\* was freed meanwhile.
TouchesContext(h) == [ h EXCEPT !.uaf = @ \/ ctx # "live" ]

\* _get_password returns (lines 175-190).
GetPasswordReturns ==
    /\ pc = "pycb"
    /\ cbk.msg = "pw"
    /\ \E pw \in PwAnswers :
         LET r == PasswordResult(pw, cbk.p2)
         IN  /\ ExcursionEnds("pw", r, pw.kind, pw.text)
             /\ pwBuf' = r.buf
             /\ hist' = HistAfterBridge(TouchesContext(hist), r)
    /\ UNCHANGED << op, ctx, capsule, finalized, cnt, last, wr >>

\* The bytes of a delivered chunk of n bytes: numbered, so that order and
\* repetition show.
Chunk(n) == [ i \in 1 .. n |-> i ]

\* Lengths the native library may pass with a data notification.
ChunkLens == { -1 } \cup ( 0 .. MaxChunkLen )

\* UCM_PROCESSDATA up to write_all or the call of _process_data
\* (lines 196-210).
BridgeProcessData ==
    /\ pc = "native"
    /\ op = "process_file"
    /\ nat.aborted = "no"
    /\ nat.chunksLeft > 0
    /\ \E p2 \in ChunkLens :
         IF p2 < 0
         THEN /\ BridgeReturns("data", p2, -1)
              /\ uo' = Record(uo, MsgBadLen)
              /\ hist' = Recorded(hist, MsgBadLen)
              /\ UNCHANGED << pc, gil, wr >>
         ELSE IF uo.callback_object # NULL
         THEN IF uo.output_fd > -1
              THEN /\ pc' = "write"
                   /\ wr' = [ NoWrite EXCEPT !.sz = p2 ]
                   /\ cbk' = [ msg |-> "data", p2 |-> p2, ret |-> -1,
                               excursion |-> FALSE, returned |-> FALSE,
                               answer |-> "none", text |-> << >> ]
                   /\ UNCHANGED << uo, gil, nat, hist >>
              ELSE /\ gil' = BLOCK_THREADS(gil, uo.thread_state)
                   /\ pc' = "pycb"
                   /\ cbk' = [ msg |-> "data", p2 |-> p2, ret |-> -1,
                               excursion |-> TRUE, returned |-> FALSE,
                          answer |-> "none", text |-> << >> ]
                   /\ hist' = [ hist EXCEPT !.afterFalsy = @ \/ hist.falsy ]
                   /\ UNCHANGED << uo, nat, wr >>
         ELSE /\ BridgeReturns("data", p2, -1)
              /\ uo' = Record(uo, MsgNoCallback)
              /\ hist' = Recorded(hist, MsgNoCallback)
              /\ UNCHANGED << pc, gil, wr >>
    /\ UNCHANGED << op, ctx, capsule, finalized, cnt, pyErr, last, pwBuf >>

\* What one write(fd, data, sz) may do: accept 1..sz bytes, accept none,
\* or fail with -1; err is the errno it leaves ("0" when it set none).
WriteOutcomes(sz) ==
    { [ written |-> w, err |-> "0" ] : w \in 0 .. sz }
    \cup { [ written |-> 0, err |-> "EIO" ] }
    \cup { [ written |-> -1, err |-> e ] : e \in { "EINTR", "EAGAIN", "EIO" } }

\* written >= sz (line 136): written is ssize_t and sz is size_t, so the
\* comparison converts written to size_t, and a negative written becomes
\* a value above every sz.
WrittenAtLeast(written, sz) == IF written < 0 THEN TRUE ELSE written >= sz

\* Lines 204-207: the bridge's result from write_all's.
WriteResult(ok) ==
    IF ok THEN [ ret |-> 0, msg |-> "" ]
    ELSE [ ret |-> -1, msg |-> MsgWriteFailed ]

\* write_all returns ok and the bridge returns to the native library.
WriteAllReturns(ok) ==
    /\ pc' = "native"
    /\ uo' = AfterBridge(uo, WriteResult(ok))
    /\ hist' = HistAfterBridge(hist, WriteResult(ok))
    /\ cbk' = [ cbk EXCEPT !.ret = WriteResult(ok).ret, !.returned = TRUE ]
    /\ nat' = [ aborted    |-> IF ok THEN nat.aborted ELSE "data",
                chunksLeft |-> nat.chunksLeft - 1 ]

\* One turn of write_all's loop (lines 128-144).  data is never advanced,
\* so every write starts at the first byte of the chunk.
WriteAllStep ==
    /\ pc = "write"
    /\ IF wr.sz > 0
       THEN \E w \in WriteOutcomes(wr.sz) :
              LET took == IF w.written > 0 THEN w.written ELSE 0
                  out  == wr.appended \o SubSeq(Chunk(cbk.p2), 1, took)
                  now  == [ wr EXCEPT !.appended = out,
                                      !.written = w.written, !.err = w.err ]
              IN  IF WrittenAtLeast(w.written, wr.sz)
                  THEN /\ wr' = now
                       /\ WriteAllReturns(TRUE)
                  ELSE IF w.written < 0
                  THEN /\ wr' = now
                       /\ UNCHANGED << pc, uo, hist, cbk, nat >>
                  ELSE IF w.written = 0 /\ w.err # "0"
                  THEN /\ wr' = now
                       /\ WriteAllReturns(FALSE)
                  ELSE /\ wr' = [ now EXCEPT !.sz = wr.sz - w.written ]
                       /\ UNCHANGED << pc, uo, hist, cbk, nat >>
       ELSE /\ WriteAllReturns(TRUE)
            /\ UNCHANGED wr
    /\ UNCHANGED << op, ctx, capsule, finalized, gil, cnt, pyErr, last, pwBuf >>

\* Lines 211-220 with a falsy answer taken as "continue".
DataResult_FalsyContinues(answer) ==
    CASE answer = "raise" -> [ ret |-> -1, msg |-> MsgDataException ]
      [] answer = "falsy" -> [ ret |-> 0, msg |-> "" ]
      [] OTHER            -> [ ret |-> 0, msg |-> "" ]

\* Lines 211-220: what the bridge makes of _process_data's answer.  For an
\* answer whose truth value cannot be taken PyObject_IsTrue is -1, which
\* the && reads as true.
DataResult(answer) ==
    CASE answer = "raise" -> [ ret |-> -1, msg |-> MsgDataException ]
      [] answer = "falsy" -> [ ret |-> -1, msg |-> MsgCanceled ]
      [] OTHER            -> [ ret |-> 0, msg |-> "" ]

\* _process_data returns (lines 210-222).
ProcessDataReturns ==
    /\ pc = "pycb"
    /\ cbk.msg = "data"
    /\ \E answer \in DataAnswers :
         /\ ExcursionEnds("data", DataResult(answer), answer, << >>)
         /\ hist' = [ HistAfterBridge(TouchesContext(hist),
                                      DataResult(answer)) EXCEPT
                        !.falsy = @ \/ answer = "falsy" ]
    /\ UNCHANGED << op, ctx, capsule, finalized, cnt, last, pwBuf, wr >>

\* ----------------------------------------------------------- specification
Next ==
    \/ OpenBegin
    \/ OpenReturn
    \/ CloseArchive
    \/ Finalize
    \/ ReadBegin
    \/ ReadReturn
    \/ ProcessBegin
    \/ ProcessReturn
    \/ BridgeChangeVolume
    \/ BridgeNeedPassword
    \/ BridgeNeedPasswordW
    \/ GetPasswordReturns
    \/ BridgeProcessData
    \/ WriteAllStep
    \/ ProcessDataReturns

Spec == Init /\ [][Next]_vars

\* ------------------------------------------- close_archive from a callback
\* The caller's _get_password or _process_data, running inside the bridge
\* while RARReadHeaderEx or RARProcessFile is on the stack, calls
\* close_archive on the capsule of that very handle (lines 285-289 and
\* 99-108).  Only a real callback object runs caller code, and during
\* open_archive there is no capsule yet.  What later reads of the freed
\* context find is not determined: the pending-error flag takes either
\* value.
CallbackCloses ==
    /\ pc = "pycb"
    /\ capsule # "none"
    /\ uo.callback_object = CallbackObj
    /\ hist.closeCalls < MaxCloseCalls
    /\ close_encapsulated_file
    /\ hist' = [ hist EXCEPT !.closeCalls = @ + 1 ]
    /\ IF PyCapsule_IsValid
       THEN \E e \in BOOLEAN : uo' = [ uo EXCEPT !.has_callback_error = e ]
       ELSE UNCHANGED uo
    /\ UNCHANGED << pc, op, finalized, gil, pyErr, last, nat, cbk, pwBuf, wr >>

NextReentrant ==
    \/ Next
    \/ CallbackCloses

SpecReentrant == Init /\ [][NextReentrant]_vars

\* ------------------------------------------------------------------ claims
Primitive == { "open_archive", "read_next_header", "process_file" }

OnHandle == { "read_next_header", "process_file" }

\* C1: for a successfully opened handle, whatever explicit close_archive
\* calls precede the finalizer, the native handle is closed once, the
\* callback reference released once and the context freed once (nothing is
\* released while the capsule is valid, everything exactly once from the
\* first teardown on), and every close_archive returns None with no error.
C1_ReleasedExactlyOnce ==
    /\ capsule = "valid" =>
         /\ ~finalized
         /\ ctx = "live"
         /\ cnt = [ closeNative |-> 0, decref |-> 0, free |-> 0 ]
    /\ capsule = "invalid" =>
         /\ ctx = "freed"
         /\ cnt = [ closeNative |-> 1, decref |-> 1, free |-> 1 ]
    /\ ( capsule # "none" /\ finalized ) => capsule = "invalid"
    /\ last.op = "close_archive" =>
         /\ last.ret = "None"
         /\ last.exc = NoErr
         /\ pyErr = NoErr

\* Two explicit closes, then the finalizer.
C1_Witness ==
    /\ finalized
    /\ hist.closeCalls = 2
    /\ cnt.free = 1

\* C2: the capsule only moves none -> valid -> invalid, and once it is
\* invalid (closed) every read_next_header or process_file begun on it
\* raises "Not a valid RARFileHandle capsule" without entering the native
\* library and without touching the freed context.
C2_ClosedIsFinal ==
    /\ [] ( /\ ~hist.uaf
            /\ ~hist.closedCall
            /\ ( pc # "idle" => ctx = "live" )
            /\ ( last.closedAtStart /\ last.op \in OnHandle ) =>
                 /\ last.ret = NULL
                 /\ last.exc = NotACapsule
                 /\ last.status = "none" )
    /\ [][ capsule' # capsule =>
             \/ capsule = "none" /\ capsule' = "valid"
             \/ capsule = "valid" /\ capsule' = "invalid" ]_vars

\* process_file on a closed handle has raised.
C2_Witness ==
    /\ last.op = "process_file"
    /\ last.closedAtStart
    /\ last.exc = NotACapsule
    /\ hist.closeCalls > 0

\* The native open came back with a failure: a null handle, or a handle
\* and an open-result other than success.
OpenFailed ==
    /\ last.op = "open_archive"
    /\ last.status # "none"
    /\ ( uo.unrar_data = NULL \/ last.status # "ERAR_SUCCESS" )

\* C3: when the native open fails, open_archive returns no handle and
\* raises the translation of the open-result; the native handle is closed
\* once if it was non-null and never otherwise, the callback reference and
\* the context are released once, and no capsule (hence no finalizer)
\* exists.
C3_OpenFailureReleases ==
    OpenFailed =>
      /\ last.ret = NULL
      /\ last.exc = convert_rar_error(last.status)
      /\ last.exc[1] \in { "UNRARError", "MemoryError" }
      /\ pyErr = last.exc
      /\ cnt.closeNative = ( IF uo.unrar_data # NULL THEN 1 ELSE 0 )
      /\ cnt.decref = 1
      /\ cnt.free = 1
      /\ ctx = "freed"
      /\ capsule = "none"

\* A handle came back together with a bad-data open-result.
C3_Witness ==
    /\ OpenFailed
    /\ uo.unrar_data # NULL
    /\ last.status = "ERAR_BAD_DATA"
    /\ cnt.closeNative = 1

\* C4: while native code runs outside the callback bridge the calling
\* thread does not hold the host-runtime lock.
C4_LockReleasedDuringNative == pc = "native" => ~gil.held

\* C5: caller-supplied callback code runs only with the lock held, and
\* the bridge has given the lock up again when it is back in native code
\* after such an excursion.
C5_BridgeLockDiscipline ==
    /\ pc = "pycb" => gil.held
    /\ ( pc = "native" /\ cbk.excursion /\ cbk.returned ) => ~gil.held

\* C6 as claimed: every callback error recorded during the native call of
\* a primitive operation is raised by that operation with the stored
\* message.
C6_EveryRecordedErrorSurfaced ==
    ( last.op \in Primitive /\ last.status # "none" /\ hist.recorded ) =>
      last.exc = << "UNRARError", uo.callback_error >>

\* C6 as amended: a callback error recorded during process_file's native
\* call is raised with the stored message when that call returns
\* ERAR_UNKNOWN (which is what a cancelled data delivery returns); for
\* every other failure status of process_file, and in open_archive and
\* read_next_header always, the translated native status is raised
\* instead.
C6_RecordedSurfacedOnUnknown ==
    /\ ( last.op = "process_file" /\ last.status = "ERAR_UNKNOWN"
         /\ hist.recorded ) =>
         /\ last.ret = NULL
         /\ last.exc = << "UNRARError", uo.callback_error >>
         /\ uo.callback_error \in
              { MsgCanceled, MsgDataException, MsgBadLen, MsgWriteFailed,
                MsgNoCallback }
    /\ ( last.op = "process_file"
         /\ last.status \notin { "none", "ERAR_SUCCESS", "ERAR_UNKNOWN" } ) =>
         last.exc = convert_rar_error(last.status)
    /\ ( last.op = "read_next_header"
         /\ last.status \notin { "none", "ERAR_SUCCESS", "ERAR_END_ARCHIVE" } ) =>
         last.exc = convert_rar_error(last.status)
    /\ OpenFailed => last.exc = convert_rar_error(last.status)

\* A cancelled delivery surfaced as process_file's error.
C6_Witness ==
    /\ last.op = "process_file"
    /\ last.status = "ERAR_UNKNOWN"
    /\ hist.recorded
    /\ last.exc = << "UNRARError", MsgCanceled >>

\* C7: process_file raises the captured message on ERAR_UNKNOWN with the
\* pending flag set, and the flag is then cleared, so that a later
\* process_file that fails with ERAR_UNKNOWN without any new callback
\* error raises the generic translated error.
C7_SurfacedThenGeneric ==
    /\ ( last.op = "process_file" /\ last.status = "ERAR_UNKNOWN"
         /\ hist.recorded ) =>
         last.exc = << "UNRARError", uo.callback_error >>
    /\ ( last.op = "process_file" /\ last.status = "ERAR_UNKNOWN"
         /\ hist.stale ) =>
         last.exc = convert_rar_error("ERAR_UNKNOWN")

\* C8: when the data consumer returns a falsy value the bridge records
\* "Processing canceled by the callback" and returns -1 (abort), no chunk
\* reaches the consumer afterwards in that process_file, and process_file
\* raises that message once the native call is back.
C8_FalsyCancels ==
    /\ ( pc = "native" /\ cbk.msg = "data" /\ cbk.answer = "falsy" ) =>
         /\ cbk.ret = -1
         /\ uo.has_callback_error
         /\ uo.callback_error = MsgCanceled
    /\ ~hist.afterFalsy
    /\ ( last.op = "process_file" /\ last.status # "none" /\ hist.falsy ) =>
         /\ last.ret = NULL
         /\ last.exc = << "UNRARError", MsgCanceled >>

\* process_file failed after a falsy answer to its first chunk.
C8_Witness ==
    /\ last.op = "process_file"
    /\ hist.falsy
    /\ last.exc = << "UNRARError", MsgCanceled >>

\* C9: when the data consumer raises, the bridge records "Processing
\* canceled by the callback" and returns -1, as for a falsy answer.
C9_RaiseRecordsCanceled ==
    ( pc = "native" /\ cbk.msg = "data" /\ cbk.answer = "raise" ) =>
      /\ cbk.ret = -1
      /\ uo.has_callback_error
      /\ uo.callback_error = MsgCanceled

\* C10: on a wide password request with a positive buffer length and a
\* registered provider, a provider that answers None or raises makes the
\* bridge record a pending error and return -1; it never returns -1 with
\* nothing recorded.
C10_PasswordAbortRecords ==
    ( pc = "native" /\ cbk.msg = "pw" /\ cbk.answer \in { "none", "raise" } ) =>
      /\ cbk.ret = -1
      /\ hist.recorded
      /\ uo.has_callback_error

\* The bridge is back in native code from a wide password request that
\* went to the provider.
PasswordAnswered ==
    /\ pc = "native"
    /\ cbk.msg = "pw"
    /\ cbk.excursion
    /\ cbk.returned

\* C11: on a wide password request with a positive buffer length, whenever
\* the provider returns a text that fits the buffer (the empty text
\* included), the bridge copies it into the native buffer, returns 0 and
\* records no pending error.
C11_TextPasswordAccepted ==
    ( PasswordAnswered /\ cbk.answer = "text" /\ Len(cbk.text) <= cbk.p2 ) =>
      /\ cbk.ret = 0
      /\ pwBuf = cbk.text
      /\ ~hist.recorded

\* The bridge is back in native code from a request that, with a callback
\* object, goes to that object: a wide password request with a positive
\* buffer length, or a data notification with no output descriptor set.
CallbackRequestDone ==
    /\ pc = "native"
    /\ cbk.returned
    /\ \/ cbk.msg = "pw" /\ cbk.p2 > 0
       \/ cbk.msg = "data" /\ cbk.p2 >= 0 /\ uo.output_fd = -1

\* C12: when the archive was opened with None as the callback, a wide
\* password request and a data notification without output descriptor
\* record "No callback provided" and return -1, and no method of a
\* callback object is called.
C12_NoneMeansNoCallback ==
    /\ pc = "pycb" => uo.callback_object # Py_None
    /\ ( CallbackRequestDone /\ uo.callback_object = Py_None ) =>
         /\ ~cbk.excursion
         /\ cbk.ret = -1
         /\ uo.has_callback_error
         /\ uo.callback_error = MsgNoCallback

\* C13: whenever the bridge is back in native code the host error channel
\* is empty, and an error raised in the caller's callback code during the
\* invocation (also one raised while the truth of the answer is taken) has
\* been recorded as the pending error with -1 returned.
C13_CallbackErrorsCaptured ==
    /\ pc = "native" => pyErr = NoErr
    /\ ( pc = "native" /\ cbk.excursion /\ cbk.returned
         /\ cbk.answer \in { "raise", "badtruth" } ) =>
         /\ cbk.ret = -1
         /\ hist.recorded
         /\ uo.has_callback_error

\* read_next_header has come back from the native header read.
ReadReturned ==
    /\ last.op = "read_next_header"
    /\ last.status # "none"

\* C14 as stated: read_next_header returns None with no error exactly when
\* the native status is end-of-archive, returns a decoded header exactly
\* when the status is success, raises the translated error for every other
\* status, and never returns a value with an error set nor a failure with
\* no error set.
C14_ReadOutcomeByStatus ==
    ReadReturned =>
      /\ last.ret = "None" <=> last.status = "ERAR_END_ARCHIVE"
      /\ last.ret = "header" <=> last.status = "ERAR_SUCCESS"
      /\ last.status \notin { "ERAR_END_ARCHIVE", "ERAR_SUCCESS" } =>
           /\ last.ret = NULL
           /\ last.exc = convert_rar_error(last.status)
      /\ last.ret = NULL <=> last.exc # NoErr
      /\ pyErr = last.exc

\* C14, amended: as stated, except that on the success status the result is
\* the decoded header or, when building the header in the host runtime
\* failed, a failure carrying the host error of that step.
C14_ReadOutcomeOrBuildFailure ==
    ReadReturned =>
      /\ last.ret = "None" <=> last.status = "ERAR_END_ARCHIVE"
      /\ last.ret = "header" => last.status = "ERAR_SUCCESS"
      /\ last.status = "ERAR_SUCCESS" =>
           \/ last.ret = "header"
           \/ last.ret = NULL /\ last.exc = HeaderBuildError
      /\ last.status \notin { "ERAR_END_ARCHIVE", "ERAR_SUCCESS" } =>
           /\ last.ret = NULL
           /\ last.exc = convert_rar_error(last.status)
      /\ last.ret = NULL <=> last.exc # NoErr
      /\ pyErr = last.exc

C14_Witness ==
    /\ ReadReturned
    /\ last.status = "ERAR_END_ARCHIVE"
    /\ last.ret = "None"
    /\ pyErr = NoErr

\* An operation has raised the translation of the native status it got.
Translated ==
    /\ last.status # "none"
    /\ last.ret = NULL
    /\ last.status # "ERAR_SUCCESS"
    /\ ~hist.surfaced

\* C15: for every native status code the translation raises exactly one host
\* error: MemoryError for the out-of-memory code, the archive error with the
\* code's name for every other code the switch names, and the archive error
\* with "Unknown error" for every code it does not name.
C15_TranslationTotal ==
    Translated =>
      /\ last.exc # NoErr
      /\ pyErr = last.exc
      /\ last.status = "ERAR_NO_MEMORY" => last.exc[1] = "MemoryError"
      /\ last.status \in NamedCodes =>
           last.exc = << "UNRARError", last.status >>
      /\ last.status \notin NamedCodes \cup { "ERAR_NO_MEMORY" } =>
           last.exc = << "UNRARError", "Unknown error" >>

C15_Witness ==
    /\ Translated
    /\ last.op = "read_next_header"
    /\ last.status = "ERAR_NO_MEMORY"
    /\ pyErr[1] = "MemoryError"

\* C16: the pack_size and unpack_size of a decoded header are
\* high * 2^32 + low of the native header's halves (the halves and the
\* factor scaled to HalfBits bits), for every pair of halves, (1, 0) and
\* (0, max) included.
C16_SizesRecombined ==
    ( ReadReturned /\ last.ret = "header" ) =>
      /\ last.value.pack_size =
           last.header.PackSizeHigh * Half + last.header.PackSize
      /\ last.value.unpack_size =
           last.header.UnpSizeHigh * Half + last.header.UnpSize

\* The bridge is back in native code from a data notification it handed to
\* write_all.
FdWriteDone ==
    /\ pc = "native"
    /\ cbk.msg = "data"
    /\ cbk.returned
    /\ cbk.p2 >= 0
    /\ uo.callback_object # NULL
    /\ uo.output_fd > -1

\* C17: with an output descriptor set, a write that fails with a negative
\* result and a cause other than interrupted/would-block makes the bridge
\* record "Failed to write all bytes to output file" and return -1, and the
\* bridge returns 0 only when every byte of the chunk went to the
\* descriptor.
C17_WriteFailureAborts ==
    FdWriteDone =>
      /\ ( wr.written < 0 /\ wr.err \notin { "EINTR", "EAGAIN" } ) =>
           /\ cbk.ret = -1
           /\ uo.has_callback_error
           /\ uo.callback_error = MsgWriteFailed
      /\ cbk.ret = 0 =>
           \A i \in 1 .. cbk.p2 :
             \E j \in DOMAIN wr.appended : wr.appended[j] = i

\* C18: with an output descriptor set, when the bridge returns 0 for a
\* chunk of n bytes and no write failed, the bytes the notification
\* appended to the descriptor are the n bytes of the chunk, once each and in
\* order, also after short writes.
C18_AppendedIsChunk ==
    ( FdWriteDone /\ cbk.ret = 0 /\ wr.written >= 0 ) =>
      wr.appended = Chunk(cbk.p2)

\* C19: write_all does not return on an interrupted/would-block write, which
\* it retries instead, and it returns failure when a write failed for
\* another cause.
C19_RetriesTransientOnly ==
    FdWriteDone =>
      /\ ~( wr.written < 0 /\ wr.err \in { "EINTR", "EAGAIN" } )
      /\ ( wr.written < 0 /\ wr.err \notin { "EINTR", "EAGAIN" } ) =>
           cbk.ret = -1

\* C20 as stated: after read_next_header returned, the pending-error flag,
\* the stored message and the output descriptor have the values they had
\* before the call.
C20_ReadLeavesStateUnchanged ==
    ReadReturned => Mutable(uo) = hist.before

\* C20, amended: read_next_header leaves the output descriptor unchanged;
\* the flag and the message are unchanged when the bridge recorded no error
\* during the header read, and otherwise the flag is set and the message is
\* the one the bridge wrote for the volume change or the password request.
C20_ReadChangesOnlyByRecording ==
    ReadReturned =>
      /\ uo.output_fd = hist.before.output_fd
      /\ ~hist.recorded => Mutable(uo) = hist.before
      /\ hist.recorded =>
           /\ uo.has_callback_error
           /\ uo.callback_error \in
                { MsgVolume, MsgBadPwLen, MsgPwException, MsgPwNotUnicode }

C20_Witness ==
    /\ ReadReturned
    /\ hist.recorded
    /\ ~hist.before.has_callback_error
    /\ uo.has_callback_error
    /\ uo.callback_error = MsgVolume

\* C21: while a native call on the handle is on the stack the context is
\* not freed and the native handle is not closed, also when the caller's
\* callback code calls close_archive on its own handle, and neither the
\* bridge nor the outer operation touches a freed context.
C21_NoTeardownUnderNativeCall ==
    /\ pc # "idle" =>
         /\ ctx = "live"
         /\ cnt.closeNative = 0
         /\ cnt.free = 0
    /\ ~hist.uaf

=============================================================================
